---- MODULE Spec2Model ----
(***************************************************************************)
(* Model of cupyimg/scipy/ndimage/interpolation.py: the control flow of    *)
(* the seven public operations (validation, dtype selection, working       *)
(* buffers, prefilter passes, sampling-kernel launch).                     *)
(*                                                                         *)
(* The caller holds an input array (inarr).  A call is one action: from    *)
(* "idle" the caller picks the other arguments and the whole handler runs, *)
(* leaving the memory contents, the log of kernel work (trace), the error  *)
(* (err) and the returned array (ret).                                     *)
(*                                                                         *)
(* Arrays are records [obj, mem, shape, dtype, contig]: obj is the Python  *)
(* object identity (what `is` compares), mem the backing allocation (what  *)
(* shares_memory compares).  Memory contents are abstract: a sequence of   *)
(* tags naming the value and the transformations applied to it.            *)
(***************************************************************************)
EXTENDS Integers, Sequences, FiniteSets, TLC

VARIABLES inarr, pc, call, mem, trace, err, ret

vars == <<inarr, pc, call, mem, trace, err, ret>>

\* ---------------------------------------------------------------- bounds
MaxRank == 2
MaxExtent == 2
\* how far outside the supported spline orders the callers' orders reach
OrderSlack == 1

\* --------------------------------------------------------------- dtypes
\* numpy dtypes the calls are exercised with, and those promotions produce.
DTypes == {"int32", "float32", "float64", "complex64", "complex128"}

\* dtype.kind
Kind(d) == CASE d = "int32" -> "i"
             [] d \in {"float32", "float64"} -> "f"
             [] d \in {"complex64", "complex128"} -> "c"
             [] OTHER -> "O"

\* bits of the real component a floating type needs to hold d
FloatBits(d) == IF d \in {"float32", "complex64"} THEN 32 ELSE 64

\* numpy.promote_types, on DTypes (int32 with a floating type needs 64 bits)
promote_types(a, b) ==
    IF Kind(a) = "i" /\ Kind(b) = "i" THEN "int32"
    ELSE LET bits == IF FloatBits(a) = 64 \/ FloatBits(b) = 64 THEN 64 ELSE 32
             cplx == Kind(a) = "c" \/ Kind(b) = "c"
         IN  IF cplx THEN (IF bits = 64 THEN "complex128" ELSE "complex64")
                     ELSE (IF bits = 64 THEN "float64" ELSE "float32")

\* ---------------------------------------------------------------- shapes
RECURSIVE ShapesOfRank(_)
ShapesOfRank(n) ==
    IF n = 0 THEN {<<>>}
    ELSE {Append(s, e) : s \in ShapesOfRank(n - 1), e \in 1..MaxExtent}

Shapes == UNION {ShapesOfRank(n) : n \in 0..MaxRank}

\* cupy broadcasting of an assignment dst[...] = src: src has no more
\* dimensions than dst and is aligned to the right of dst; each extent of src
\* is equal to that of dst or 1.
BroadcastsTo(src, dst) ==
    /\ Len(src) <= Len(dst)
    /\ \A i \in 1..Len(src) :
          LET se == src[Len(src) - i + 1]
          IN  se = dst[Len(dst) - i + 1] \/ se = 1

\* numpy broadcasting of a binary elementwise operation
BroadcastOK(a, b) ==
    \A i \in 1..(IF Len(a) < Len(b) THEN Len(a) ELSE Len(b)) :
        LET ae == a[Len(a) - i + 1]
            be == b[Len(b) - i + 1]
        IN  ae = be \/ ae = 1 \/ be = 1

\* ---------------------------------------------------------------- memory
CallerMem == {"IN", "OUT"}
TempNames == <<"T1", "T2", "T3", "T4", "T5", "T6", "T7", "T8", "T9", "T10", "T11", "T12">>
MemIds == CallerMem \cup {TempNames[i] : i \in DOMAIN TempNames}

\* contents of the caller's buffers before a call
InitMem == [m \in MemIds |-> IF m = "IN" THEN <<"x">>
                             ELSE IF m = "OUT" THEN <<"y">> ELSE <<>>]

Arr(o, m, s, d, c) == [kind |-> "array", obj |-> o, mem |-> m, shape |-> s, dtype |-> d, contig |-> c]
NoneOut == [kind |-> "none", obj |-> "", mem |-> "", shape |-> <<>>, dtype |-> "", contig |-> TRUE]
DtypeOut(d) == [kind |-> "dtype", obj |-> "", mem |-> "", shape |-> <<>>, dtype |-> d, contig |-> TRUE]

\* isinstance(output, cupy.ndarray)
IsArray(o) == o.kind = "array"

\* one entry of the log of kernel work and buffer writes
Event(e, s, d, t, dt) == [ev |-> e, src |-> s, dst |-> d, tag |-> t, dt |-> dt]

\* the state of a running call
St0 == [mem |-> InitMem, trace |-> <<>>, err |-> "none", nt |-> 0,
        val |-> NoneOut, out |-> NoneOut, fd |-> "", od |-> ""]

Raise(st, kind) == [st EXCEPT !.err = kind]

\* a fresh allocation holding `content`; the new array is left in val
Alloc(st, shape, dtype, content) ==
    LET name == TempNames[st.nt + 1]
    IN  [st EXCEPT !.nt = st.nt + 1,
                   !.mem = [st.mem EXCEPT ![name] = content],
                   !.val = Arr(name, name, shape, dtype, TRUE)]

\* dst[...] = src[...]: a broadcasting, casting element copy
CopyInto(st, dst, src) ==
    IF ~BroadcastsTo(src.shape, dst.shape) THEN Raise(st, "BroadcastError")
    ELSE [st EXCEPT !.mem = [st.mem EXCEPT ![dst.mem] = st.mem[src.mem]],
                    !.trace = Append(st.trace, Event("copy", src.mem, dst.mem, "", dst.dtype))]

\* a.astype(dtype, copy=False): the array itself when the dtype is unchanged
AstypeNoCopy(st, a, dtype) ==
    IF a.dtype = dtype THEN [st EXCEPT !.val = a]
    ELSE Alloc(st, a.shape, dtype, st.mem[a.mem])

\* a.astype(dtype): always a new array
Astype(st, a, dtype) == Alloc(st, a.shape, dtype, st.mem[a.mem])

\* cupy.ascontiguousarray(a): the array itself when it is C-contiguous
AsContiguous(st, a) ==
    IF a.contig THEN [st EXCEPT !.val = a]
    ELSE Alloc(st, a.shape, a.dtype, st.mem[a.mem])

\* ------------------------------------------------------------ validation
MaxOrder == 5

ValidModes == {"constant", "nearest", "mirror", "reflect", "wrap", "opencv", "_opencv_edge"}

get_output(st, output, input, shape) ==
    IF IsArray(output)
    THEN IF output.shape # shape THEN Raise(st, "ShapeMismatch")
         ELSE [st EXCEPT !.val = output]
    ELSE LET dtype == IF output.kind = "none" THEN input.dtype ELSE output.dtype
         IN  Alloc(st, shape, dtype, <<"zeros">>)

check_parameter(st, order, mode) ==
    IF order < 0 \/ MaxOrder < order THEN Raise(st, "InvalidOrder")
    ELSE IF mode \notin ValidModes THEN Raise(st, "InvalidMode")
    ELSE st

\* Leaves temp in val, float_dtype in fd and output_dtype in od.
get_spline_output(st, input, output, allow_float32) ==
    LET complex_data == Kind(input.dtype) = "c"
        min_float_dtype ==
            IF complex_data
            THEN (IF allow_float32 THEN "complex64" ELSE "complex128")
            ELSE (IF allow_float32 THEN "float32" ELSE "float64")
        out == IF output.kind = "none" THEN DtypeOut(input.dtype) ELSE output
        float_dtype == promote_types(out.dtype, min_float_dtype)
        output_dtype == out.dtype
        Dtypes(s) == [s EXCEPT !.fd = float_dtype, !.od = output_dtype]
        \* if cupy.shares_memory(temp, input): temp = temp.copy()
        Unshare(s) == IF s.val.mem = input.mem
                      THEN Alloc(s, s.val.shape, s.val.dtype, s.mem[s.val.mem])
                      ELSE s
        \* temp = cupy.ascontiguousarray(temp)
        Contiguous(s) == Unshare(AsContiguous(s, s.val))
    IN  IF IsArray(output) /\ complex_data /\ Kind(output.dtype) # "c"
        THEN Raise(st, "DtypeMismatch")
        ELSE IF IsArray(out) /\ out.dtype = float_dtype /\ out.contig
        \* if output is not input: output[...] = input[...]; temp = output
        THEN Dtypes([(IF out.obj # input.obj THEN CopyInto(st, out, input) ELSE st)
                        EXCEPT !.val = out])
        \* temp = input.astype(float_dtype, copy=False)
        ELSE Dtypes(Contiguous(AstypeNoCopy(st, input, float_dtype)))

\* ------------------------------------------------------------- prefilter
\* _misc._normalize_axis_index: a negative axis counts from the end; an axis
\* outside -ndim..ndim-1 is an error.
AxisInRange(axis, ndim) == 0 - ndim <= axis /\ axis < ndim
normalize_axis_index(axis, ndim) == IF axis < 0 THEN axis + ndim ELSE axis

\* _spline_prefilter_core.get_raw_spline1d_kernel: building the kernel source
\* for a boundary mode; an unrecognized mode is reported as an error.
get_raw_spline1d_kernel(st, mode) ==
    IF mode \notin ValidModes THEN Raise(st, "InvalidMode") ELSE st

PassTags == <<"pass0", "pass1", "pass2", "pass3", "pass4", "pass5">>

\* temp *= gain, then the causal + anti-causal kernel over the lines of axis
RunPrefilterKernel(st, temp, axis) ==
    [st EXCEPT !.mem = [st.mem EXCEPT ![temp.mem] = st.mem[temp.mem] \o <<"gain", PassTags[axis + 1]>>],
               !.trace = st.trace \o <<Event("gain", temp.mem, temp.mem, "", temp.dtype),
                                        Event("prefilter", temp.mem, temp.mem, PassTags[axis + 1], temp.dtype)>>]

\* Leaves the returned array in val.
spline_filter1d(st, input, order, axis0, output, mode, allow_float32) ==
    LET ndim == Len(input.shape)
        axis == normalize_axis_index(axis0, ndim)
        run_kernel == ~(order < 2 \/ ndim = 0 \/ input.shape[axis + 1] = 1)
        \* output[...] = x[...]; return output
        PassThrough(s) == IF s.err # "none" THEN s
                          ELSE [CopyInto(s, s.val, input) EXCEPT !.val = s.val]
        \* copy kernel output into the user-provided output array, or
        \* return temp.astype(output_dtype, copy=False); temp is s.val
        Store(s) == IF IsArray(output) /\ s.val.obj # output.obj
                    THEN [CopyInto(s, output, s.val) EXCEPT !.val = output]
                    ELSE AstypeNoCopy(s, s.val, s.od)
        Launch(s) == IF s.err # "none" THEN s
                     ELSE Store(RunPrefilterKernel(s, s.val, axis))
        Build(s) == IF s.err # "none" THEN s
                    ELSE Launch(get_raw_spline1d_kernel(s, mode))
    IN  IF order < 0 \/ order > MaxOrder THEN Raise(st, "InvalidOrder")
        ELSE IF ~AxisInRange(axis0, ndim) THEN Raise(st, "AxisError")
        ELSE IF ~run_kernel THEN PassThrough(get_output(st, output, input, input.shape))
        ELSE Build(get_spline_output(st, input, output, allow_float32))

RECURSIVE FilterAxes_KeepInput(_, _, _, _, _, _, _, _)
\* the loop without its last statement x = temp: every pass is given the
\* original input
FilterAxes_KeepInput(st, x, temp, k, ndim, order, mode, allow_float32) ==
    IF st.err # "none" \/ k >= ndim THEN st
    ELSE FilterAxes_KeepInput(spline_filter1d(st, x, order, k, temp, mode, allow_float32),
                              x, temp, k + 1, ndim, order, mode, allow_float32)

RECURSIVE FilterAxes(_, _, _, _, _, _, _, _)
\* the loop of spline_filter, for axis in range(ndim), from axis k on: x is
\* the input of the pass for axis k, temp its output buffer
FilterAxes(st, x, temp, k, ndim, order, mode, allow_float32) ==
    IF st.err # "none" \/ k >= ndim THEN st
    ELSE FilterAxes(spline_filter1d(st, x, order, k, temp, mode, allow_float32),
                    temp, temp, k + 1, ndim, order, mode, allow_float32)

\* Leaves the returned array in val.
spline_filter(st, input, order, output, mode, allow_float32) ==
    LET \* if output.dtype != output_dtype: output = output.astype(output_dtype)
        Cast(s, out, output_dtype) ==
            IF s.err # "none" THEN s
            ELSE IF out.dtype # output_dtype THEN Astype(s, out, output_dtype)
            ELSE [s EXCEPT !.val = out]
        \* output[...] = temp[...], or output = temp
        Store(s, temp, output_dtype) ==
            IF s.err # "none" THEN s
            ELSE IF IsArray(output) THEN Cast(CopyInto(s, output, temp), output, output_dtype)
            ELSE Cast(s, temp, output_dtype)
        \* temp is s.val, output_dtype is s.od
        Axes(s) ==
            IF s.err # "none" THEN s
            ELSE IF order \notin {0, 1} /\ Len(input.shape) > 0
            THEN Store(FilterAxes(s, input, s.val, 0, Len(input.shape), order, mode,
                                  allow_float32), s.val, s.od)
            ELSE Store(s, s.val, s.od)
    IN  IF order < 2 \/ order > MaxOrder THEN Raise(st, "InvalidOrder")
        ELSE Axes(get_spline_output(st, input, output, allow_float32))

\* -------------------------------------------------------------- sampling
\* kern(filtered, ..., output): every output element is computed from reads
\* of filtered and written to output, the elements in no fixed order
SampleKernel(st, filtered, output, name) ==
    [st EXCEPT !.mem = [st.mem EXCEPT ![output.mem] =
                           IF filtered.mem = output.mem THEN <<"race">>
                           ELSE st.mem[filtered.mem] \o <<name>>],
               !.trace = Append(st.trace, Event("sample", filtered.mem, output.mem, name, filtered.dtype)),
               !.val = output]

\* cupy.pad(input, [(1, 1)] * input.ndim, "constant", constant_values=cval)
Pad(st, input) ==
    Alloc(st, [i \in 1..Len(input.shape) |-> input.shape[i] + 2], input.dtype,
          st.mem[input.mem] \o <<"pad">>)

\* if input.dtype.kind in "iu": input = input.astype(cupy.float32)
IntToFloat32(st, input) ==
    IF Kind(input.dtype) = "i" THEN Astype(st, input, "float32")
    ELSE [st EXCEPT !.val = input]

\* the prefilter decision without the prefilter flag: if order > 1
Prefiltered_IgnoreFlag(st, order, mode, prefilter, allow_float32) ==
    LET Contiguous(s) == IF s.err # "none" THEN s ELSE AsContiguous(s, s.val)
    IN  IF st.err # "none" THEN st
        ELSE IF order > 1
        THEN Contiguous(spline_filter(st, st.val, order, DtypeOut(st.val.dtype), mode,
                                      allow_float32))
        ELSE Contiguous(st)

\* if prefilter and order > 1: filtered = spline_filter(...) else input;
\* then filtered = cupy.ascontiguousarray(filtered).  The input is st.val;
\* leaves filtered in val.
Prefiltered(st, order, mode, prefilter, allow_float32) ==
    LET Contiguous(s) == IF s.err # "none" THEN s ELSE AsContiguous(s, s.val)
    IN  IF st.err # "none" THEN st
        ELSE IF prefilter /\ order > 1
        THEN Contiguous(spline_filter(st, st.val, order, DtypeOut(st.val.dtype), mode,
                                      allow_float32))
        ELSE Contiguous(st)

\* output = _get_output(output, input, shape); input to float; prefilter.
\* Leaves output in out and filtered in val.
Prepare(st, input, output, shape, order, mode, prefilter, allow_float32) ==
    LET Convert(s) == IF s.err # "none" THEN s
                      ELSE IntToFloat32([s EXCEPT !.out = s.val], input)
    IN  Prefiltered(Convert(get_output(st, output, input, shape)),
                    order, mode, prefilter, allow_float32)

\* coordinates: [shape, kind], an array of shape <<input.ndim>> \o shape
map_coordinates(st, input0, coordinates, output, order, mode0, prefilter, allow_float32) ==
    LET opencv == mode0 = "opencv" \/ mode0 = "_opencv_edge"
        mode == IF opencv THEN "constant" ELSE mode0
        Launch(s) == IF s.err # "none" THEN s
                     ELSE SampleKernel(s, s.val, s.out, "map")
        Filter(s) == IF s.err # "none" THEN s
                     ELSE IF coordinates.kind \notin {"i", "f"} THEN Raise(s, "DtypeMismatch")
                     ELSE Launch(Prefiltered(s, order, mode, prefilter, allow_float32))
        \* ret = _get_output(...); the input, padded or not, is s.val
        Output(s) == LET Convert(t) == IF t.err # "none" THEN t
                                       ELSE IntToFloat32([t EXCEPT !.out = t.val], s.val)
                     IN  Filter(Convert(get_output(s, output, s.val, coordinates.shape)))
        Padded(s) == IF s.err # "none" THEN s
                     ELSE IF opencv THEN Output(Pad(s, input0))
                     ELSE Output([s EXCEPT !.val = input0])
    IN  Padded(check_parameter(st, order, mode0))

\* matrix: [shape]; offset: [scalar, shape] (a scalar offset has no shape);
\* output_shape: a shape, or <<-1>> for None
NoShape == <<0 - 1>>

affine_transform(st, input, matrix0, offset0, output_shape0, output, order, mode, prefilter, allow_float32) ==
    LET ndim == Len(input.shape)
        \* offset = [offset] * input.ndim
        off1 == IF offset0.scalar THEN <<ndim>> ELSE offset0.shape
        mnd == Len(matrix0.shape)
        augmented == mnd = 2 /\ matrix0.shape[1] = matrix0.shape[2] - 1
        homogeneous == mnd = 2 /\ ~augmented /\ matrix0.shape[1] = ndim + 1
        \* offset = matrix[:, -1]; matrix = matrix[:, :-1]
        \* offset = matrix[:-1, -1]; matrix = matrix[:-1, :-1]
        off2 == IF augmented THEN <<matrix0.shape[1]>>
                ELSE IF homogeneous THEN <<matrix0.shape[1] - 1>>
                ELSE off1
        mat2 == IF augmented THEN <<matrix0.shape[1], matrix0.shape[2] - 1>>
                ELSE IF homogeneous THEN <<matrix0.shape[1] - 1, matrix0.shape[2] - 1>>
                ELSE matrix0.shape
        \* mode == "opencv": the matrix and offset are rebuilt from the
        \* inverse of the homogeneous matrix m
        mat3 == IF mode = "opencv" THEN <<ndim, ndim>> ELSE mat2
        off3 == IF mode = "opencv" THEN <<ndim>> ELSE off2
        output_shape == IF output_shape0 = NoShape THEN input.shape ELSE output_shape0
        Launch(s) ==
            IF s.err # "none" THEN s
            \* matrix.ndim == 1: offset = -offset / matrix, zoom-shift kernel
            ELSE IF Len(mat3) = 1
            THEN IF BroadcastOK(off3, mat3)
                 THEN SampleKernel(s, s.val, s.out, "zoom_shift")
                 ELSE Raise(s, "BroadcastError")
            \* m[:, :-1] = matrix; m[:, -1] = offset, affine kernel
            ELSE IF BroadcastsTo(mat3, <<ndim, ndim>>) /\ BroadcastsTo(off3, <<ndim>>)
                 THEN SampleKernel(s, s.val, s.out, "affine")
                 ELSE Raise(s, "BroadcastError")
        Matrix(s) ==
            IF s.err # "none" THEN s
            ELSE IF mnd \notin {1, 2} THEN Raise(s, "InvalidTransformMatrix")
            \* m[:-1, :-1] = matrix; m[:-1, -1] = offset
            ELSE IF mode = "opencv"
                    /\ ~(BroadcastsTo(mat2, <<ndim, ndim>>) /\ BroadcastsTo(off2, <<ndim>>))
            THEN Raise(s, "BroadcastError")
            ELSE Launch(Prepare(s, input, output, output_shape, order, mode, prefilter,
                                allow_float32))
    IN  Matrix(check_parameter(st, order, mode))

\* rotate by quarter turns: (cos, sin) of angle = 90 * q degrees
\* Floating-point values: n is the numerator of the value's rational part
\* over a denominator fixed by the context, t says how the float relates to
\* it: "exact" (equal), "off" (differs by a nonzero rounding residue below
\* 1e-15) or "near" (differs by a residue that may be zero).
Num(n, t) == [n |-> n, t |-> t]
Exact(n) == Num(n, "exact")
IsZero(a) == a.n = 0 /\ a.t = "exact"
Neg(a) == Num(0 - a.n, a.t)
Mul(a, b) ==
    Num(a.n * b.n,
        IF IsZero(a) \/ IsZero(b) \/ (a.t = "exact" /\ b.t = "exact") THEN "exact"
        ELSE IF (a.t = "exact" /\ b.t = "off" /\ b.n = 0)
                \/ (b.t = "exact" /\ a.t = "off" /\ a.n = 0) THEN "off"
        ELSE "near")
Add(a, b) ==
    Num(a.n + b.n,
        IF IsZero(a) THEN b.t
        ELSE IF IsZero(b) THEN a.t
        ELSE IF a.t = "exact" /\ b.t = "exact" THEN "exact"
        ELSE "near")
Sub(a, b) == Add(a, Neg(b))

\* angle ids: q in 0..4 is 90 * q degrees; 5, 6, 7 are the angles whose
\* cosine and sine are (3/5, 4/5), (4/5, 3/5), (-3/5, 4/5)
\* math.cos(numpy.deg2rad(angle)), math.sin(...): numerators over TrigDen.
\* At the quarter turns one of the two is a rounding residue instead of 0
\* (cos 90 = 6.1e-17, sin 180 = 1.2e-16, cos 270 = -1.8e-16,
\* sin 360 = -2.4e-16); at 0 degrees both are exact.
TrigDen == 5
cos(q) == <<Exact(5), Num(0, "off"), Exact(0 - 5), Num(0, "off"), Exact(5),
            Num(3, "near"), Num(4, "near"), Num(0 - 3, "near")>>[q + 1]
sin(q) == <<Exact(0), Exact(5), Num(0, "off"), Exact(0 - 5), Num(0, "off"),
            Num(4, "near"), Num(3, "near"), Num(4, "near")>>[q + 1]

Max4(a, b, c, d) == LET m(x, y) == IF x < y THEN y ELSE x IN m(m(a, b), m(c, d))
Min4(a, b, c, d) == LET m(x, y) == IF x < y THEN x ELSE y IN m(m(a, b), m(c, d))

\* the shape rounded up to the bounding box instead of to the nearest integer
out_plane_shape_ceil(q, iy, ix) ==
    LET c == cos(q).n
        s == sin(q).n
        r0(y, x) == c * y + s * x
        r1(y, x) == (0 - s) * y + c * x
        ptp0 == Max4(r0(0, 0), r0(0, ix), r0(iy, 0), r0(iy, ix))
                  - Min4(r0(0, 0), r0(0, ix), r0(iy, 0), r0(iy, ix))
        ptp1 == Max4(r1(0, 0), r1(0, ix), r1(iy, 0), r1(iy, ix))
                  - Min4(r1(0, 0), r1(0, ix), r1(iy, 0), r1(iy, ix))
    IN  <<(ptp0 + TrigDen - 1) \div TrigDen, (ptp1 + TrigDen - 1) \div TrigDen>>

\* out_bounds = rot_matrix @ [[0, 0, iy, iy], [0, ix, 0, ix]];
\* out_plane_shape = (out_bounds.ptp(axis=1) + 0.5).astype(int)
\* (ptp in units of 1/TrigDen; the residues are far below the distance of
\* ptp + 0.5 from an integer, which is at least 1/(2 * TrigDen))
out_plane_shape(q, iy, ix) ==
    LET c == cos(q).n
        s == sin(q).n
        r0(y, x) == c * y + s * x
        r1(y, x) == (0 - s) * y + c * x
        ptp0 == Max4(r0(0, 0), r0(0, ix), r0(iy, 0), r0(iy, ix))
                  - Min4(r0(0, 0), r0(0, ix), r0(iy, 0), r0(iy, ix))
        ptp1 == Max4(r1(0, 0), r1(0, ix), r1(iy, 0), r1(iy, ix))
                  - Min4(r1(0, 0), r1(0, ix), r1(iy, 0), r1(iy, ix))
    IN  <<(2 * ptp0 + TrigDen) \div (2 * TrigDen), (2 * ptp1 + TrigDen) \div (2 * TrigDen)>>

\* axes = list(axes), negative axes counted from the end, sorted
rotate_axes(axes0, ndim) ==
    LET a0 == IF axes0[1] < 0 THEN axes0[1] + ndim ELSE axes0[1]
        a1 == IF axes0[2] < 0 THEN axes0[2] + ndim ELSE axes0[2]
    IN  IF a0 > a1 THEN <<a1, a0>> ELSE <<a0, a1>>

\* output_shape of rotate: the in-plane extents replaced when reshape
rotate_output_shape(shape, q, axes, reshape) ==
    LET plane == IF reshape
                 THEN out_plane_shape(q, shape[axes[1] + 1], shape[axes[2] + 1])
                 ELSE <<shape[axes[1] + 1], shape[axes[2] + 1]>>
    IN  [i \in 1..Len(shape) |->
            IF i = axes[2] + 1 THEN plane[2]
            ELSE IF i = axes[1] + 1 THEN plane[1]
            ELSE shape[i]]

\* matrix = numpy.identity(ndim) with the rotation in the plane of axes:
\* entries over TrigDen
rotate_matrix(ndim, q, axes) ==
    [i \in 1..ndim |-> [j \in 1..ndim |->
        IF i = axes[1] + 1 /\ j = axes[1] + 1 THEN cos(q)
        ELSE IF i = axes[1] + 1 /\ j = axes[2] + 1 THEN sin(q)
        ELSE IF i = axes[2] + 1 /\ j = axes[1] + 1 THEN Neg(sin(q))
        ELSE IF i = axes[2] + 1 /\ j = axes[2] + 1 THEN cos(q)
        ELSE IF i = j THEN Exact(TrigDen) ELSE Exact(0)]]

\* the offset with out_center taken as rot_matrix @ (out_plane_shape / 2)
rotate_offset_uncentred(shape, q, axes, output_shape) ==
    LET oc0 == Exact(output_shape[axes[1] + 1])
        oc1 == Exact(output_shape[axes[2] + 1])
        ic0 == Exact(TrigDen * (shape[axes[1] + 1] - 1))
        ic1 == Exact(TrigDen * (shape[axes[2] + 1] - 1))
        out_center0 == Add(Mul(cos(q), oc0), Mul(sin(q), oc1))
        out_center1 == Add(Mul(Neg(sin(q)), oc0), Mul(cos(q), oc1))
    IN  [i \in 1..Len(shape) |->
            IF i = axes[1] + 1 THEN Sub(ic0, out_center0)
            ELSE IF i = axes[2] + 1 THEN Sub(ic1, out_center1)
            ELSE Exact(0)]

\* offset = zeros(ndim); offset[axes] = in_center - out_center, where
\* out_center = rot_matrix @ ((out_plane_shape - 1) / 2) and
\* in_center = (in_plane_shape - 1) / 2: entries over 2 * TrigDen
rotate_offset(shape, q, axes, output_shape) ==
    LET oc0 == Exact(output_shape[axes[1] + 1] - 1)
        oc1 == Exact(output_shape[axes[2] + 1] - 1)
        ic0 == Exact(TrigDen * (shape[axes[1] + 1] - 1))
        ic1 == Exact(TrigDen * (shape[axes[2] + 1] - 1))
        out_center0 == Add(Mul(cos(q), oc0), Mul(sin(q), oc1))
        out_center1 == Add(Mul(Neg(sin(q)), oc0), Mul(cos(q), oc1))
    IN  [i \in 1..Len(shape) |->
            IF i = axes[1] + 1 THEN Sub(ic0, out_center0)
            ELSE IF i = axes[2] + 1 THEN Sub(ic1, out_center1)
            ELSE Exact(0)]

\* q an angle id; axes a pair of axis numbers
rotate(st, input, q, axes0, reshape, output, order, mode0, prefilter, allow_float32) ==
    LET ndim == Len(input.shape)
        mode == IF mode0 = "opencv" THEN "_opencv_edge" ELSE mode0
        axes == rotate_axes(axes0, ndim)
        Plane(s) ==
            IF s.err # "none" THEN s
            ELSE IF axes[1] < 0 \/ ndim <= axes[2] THEN Raise(s, "InvalidAxes")
            ELSE affine_transform(s, input, [shape |-> <<ndim, ndim>>],
                                  [scalar |-> FALSE, shape |-> <<ndim>>],
                                  rotate_output_shape(input.shape, q, axes, reshape),
                                  output, order, mode, prefilter, allow_float32)
    IN  Plane(check_parameter(st, order, mode0))

\* shift: [nd, len]: nd = 0 a scalar, nd = 1 a sequence of len values,
\* nd = 2 an array of shape (1, len)
VecShape(vec, ndim) ==
    IF vec.nd = 0 THEN <<ndim>>
    ELSE IF vec.nd = 1 THEN <<vec.len>>
    ELSE <<1, vec.len>>

shift(st, input, vec, output, order, mode, prefilter, allow_float32) ==
    LET ndim == Len(input.shape)
        \* shift = [shift] * input.ndim
        vshape == VecShape(vec, ndim)
        \* filtered is s.val
        Launch(s) ==
            IF s.err # "none" THEN s
            ELSE IF Len(vshape) # 1 THEN Raise(s, "InvalidParameterShape")
            ELSE IF vshape[1] # Len(s.val.shape) THEN Raise(s, "InvalidParameterShape")
            ELSE SampleKernel(s, s.val, s.out, "shift")
        Path(s) ==
            IF s.err # "none" THEN s
            ELSE IF mode = "opencv"
            THEN affine_transform(s, input, [shape |-> <<ndim>>],
                                  [scalar |-> FALSE, shape |-> vshape],
                                  NoShape, output, order, "_opencv_edge", prefilter, TRUE)
            ELSE Launch(Prepare(s, input, output, input.shape, order, mode, prefilter,
                                allow_float32))
    IN  Path(check_parameter(st, order, mode))

\* zoom factors are rationals n / ZoomDen
ZoomDen == 2

\* Python round() of the rational num / den (den > 0): to nearest, a tie to
\* the even neighbour
PyRound(num, den) ==
    LET q == num \div den
        r == num % den
    IN  IF 2 * r < den THEN q
        ELSE IF 2 * r > den THEN q + 1
        ELSE IF q % 2 = 0 THEN q ELSE q + 1

\* zoom: [nd, vals]: nd = 0 a scalar vals[1], nd = 1 the sequence vals,
\* nd = 2 the nested sequence [vals]
\* output_shape: int(round(s * z)) for s, z in zip(input.shape, zoom)
zoom_output_shape(shape, vec) ==
    LET n == IF vec.nd = 0 THEN Len(shape)
             ELSE IF vec.nd = 2 THEN (IF Len(shape) = 0 THEN 0 ELSE 1)
             ELSE IF Len(shape) < Len(vec.vals) THEN Len(shape) ELSE Len(vec.vals)
        z(i) == IF vec.nd = 0 THEN vec.vals[1] ELSE vec.vals[i]
    IN  [i \in 1..n |-> PyRound(shape[i] * z(i), ZoomDen)]

zoom(st, input, vec, output, order, mode, prefilter, allow_float32) ==
    LET ndim == Len(input.shape)
        output_shape == zoom_output_shape(input.shape, vec)
        \* the zoom list rebuilt from zip(input.shape, output_shape)
        zlen == Len(output_shape)
        \* filtered is s.val
        Launch(s) ==
            IF s.err # "none" THEN s
            ELSE IF zlen # Len(s.val.shape) THEN Raise(s, "InvalidParameterShape")
            ELSE SampleKernel(s, s.val, s.out, "zoom")
        Path(s) ==
            IF s.err # "none" THEN s
            \* round() of a sequence: a TypeError on the first pass of the loop
            ELSE IF vec.nd = 2 /\ ndim > 0 THEN Raise(s, "TypeError")
            ELSE IF mode = "opencv"
            THEN affine_transform(s, input, [shape |-> <<zlen>>],
                                  [scalar |-> FALSE, shape |-> <<zlen>>],
                                  output_shape, output, order, "nearest", prefilter, TRUE)
            ELSE Launch(Prepare(s, input, output, output_shape, order, mode, prefilter,
                                allow_float32))
    IN  Path(check_parameter(st, order, mode))

\* ------------------------------------------------------------ the caller
Orders == (0 - OrderSlack)..(MaxOrder + OrderSlack)
Modes == ValidModes \cup {"bogus"}
InDTypes == {"int32", "float32", "complex64"}
OutDTypes == {"int32", "float32", "float64", "complex64"}

\* the caller's input array
\* the caller's input is an image of at least one dimension
InShapes == Shapes \ {<<>>}
Inputs == {Arr("IN", "IN", s, d, TRUE) : s \in InShapes, d \in InDTypes}

\* what the caller passes as output: nothing, a dtype, a buffer of its own,
\* the input array itself, or a view of the input array
Outputs(input) ==
    {NoneOut} \cup {DtypeOut(d) : d \in OutDTypes}
    \cup {Arr("OUT", "OUT", s, d, TRUE) : s \in Shapes, d \in OutDTypes}
    \cup {input, Arr("VIEW", "IN", input.shape, input.dtype, TRUE)}

Finish(c, st) ==
    /\ inarr' = inarr
    /\ pc' = "returned"
    /\ call' = c
    /\ mem' = st.mem
    /\ trace' = st.trace
    /\ err' = st.err
    /\ ret' = IF st.err = "none" THEN st.val ELSE NoneOut

NoCall == [op |-> "none"]

Init ==
    /\ inarr \in Inputs
    /\ pc = "idle"
    /\ call = NoCall
    /\ mem = InitMem
    /\ trace = <<>>
    /\ err = "none"
    /\ ret = NoneOut

Call_spline_filter1d ==
    /\ pc = "idle"
    /\ \E input \in {inarr}, order \in Orders, mode \in Modes, allow_float32 \in BOOLEAN,
          axis \in (0 - 1)..(MaxRank - 1) :
         \E output \in Outputs(input) :
            Finish([op |-> "spline_filter1d", input |-> input, output |-> output,
                    order |-> order, mode |-> mode, prefilter |-> TRUE,
                    allow_float32 |-> allow_float32, axis |-> axis],
                   spline_filter1d(St0, input, order, axis, output, mode, allow_float32))

Call_spline_filter ==
    /\ pc = "idle"
    /\ \E input \in {inarr}, order \in Orders, mode \in Modes, allow_float32 \in BOOLEAN :
         \E output \in Outputs(input) :
            Finish([op |-> "spline_filter", input |-> input, output |-> output,
                    order |-> order, mode |-> mode, prefilter |-> TRUE,
                    allow_float32 |-> allow_float32],
                   spline_filter(St0, input, order, output, mode, allow_float32))

\* The sampling operations are called in two ways: with the operation's own
\* arguments well formed and output, prefilter and allow_float32 chosen by
\* the caller, or with the operation's own arguments chosen freely and
\* output, prefilter and allow_float32 left at their defaults.
CoordKinds == {"i", "f", "c"}

Do_map_coordinates(input, coordinates, output, order, mode, prefilter, allow_float32) ==
    Finish([op |-> "map_coordinates", input |-> input, output |-> output,
            order |-> order, mode |-> mode, prefilter |-> prefilter,
            allow_float32 |-> allow_float32, coordinates |-> coordinates],
           map_coordinates(St0, input, coordinates, output, order, mode, prefilter, allow_float32))

Call_map_coordinates ==
    /\ pc = "idle"
    /\ \E input \in {inarr}, order \in Orders, mode \in Modes :
         \/ \E prefilter \in BOOLEAN, allow_float32 \in BOOLEAN, output \in Outputs(input) :
               Do_map_coordinates(input, [shape |-> input.shape, kind |-> "f"],
                                  output, order, mode, prefilter, allow_float32)
         \/ \E s \in Shapes, k \in CoordKinds :
               Do_map_coordinates(input, [shape |-> s, kind |-> k],
                                  NoneOut, order, mode, TRUE, TRUE)

\* matrices of 0 to 3 dimensions
MatrixShapes ==
    {<<>>, <<1, 1, 1>>}
    \cup {<<a>> : a \in 1..(MaxRank + 1)}
    \cup {<<a, b>> : a \in 1..(MaxRank + 1), b \in 1..(MaxRank + 1)}

Offsets == {[scalar |-> TRUE, shape |-> <<>>]}
           \cup {[scalar |-> FALSE, shape |-> <<a>>] : a \in 1..MaxRank}

Do_affine_transform(input, matrix, offset, output_shape, output, order, mode, prefilter, allow_float32) ==
    Finish([op |-> "affine_transform", input |-> input, output |-> output,
            order |-> order, mode |-> mode, prefilter |-> prefilter,
            allow_float32 |-> allow_float32, matrix |-> matrix, offset |-> offset,
            output_shape |-> output_shape],
           affine_transform(St0, input, matrix, offset, output_shape, output, order, mode,
                            prefilter, allow_float32))

Call_affine_transform ==
    /\ pc = "idle"
    /\ \E input \in {inarr}, order \in Orders, mode \in Modes :
         \/ \E prefilter \in BOOLEAN, allow_float32 \in BOOLEAN, output \in Outputs(input),
               m \in {<<Len(input.shape)>>, <<Len(input.shape), Len(input.shape)>>} :
               Do_affine_transform(input, [shape |-> m], [scalar |-> TRUE, shape |-> <<>>],
                                   NoShape, output, order, mode, prefilter, allow_float32)
         \/ \E m \in MatrixShapes, offset \in Offsets, output_shape \in {NoShape} \cup Shapes :
               Do_affine_transform(input, [shape |-> m], offset, output_shape,
                                   NoneOut, order, mode, TRUE, TRUE)

Angles == 0..7
AxesPairs == {<<a, b>> : a \in (0 - MaxRank)..(MaxRank - 1), b \in (0 - MaxRank)..(MaxRank - 1)}
             \ {<<a, a>> : a \in (0 - MaxRank)..(MaxRank - 1)}

Do_rotate(input, q, axes, reshape, output, order, mode, prefilter, allow_float32) ==
    Finish([op |-> "rotate", input |-> input, output |-> output,
            order |-> order, mode |-> mode, prefilter |-> prefilter,
            allow_float32 |-> allow_float32, q |-> q, axes |-> axes, reshape |-> reshape],
           rotate(St0, input, q, axes, reshape, output, order, mode, prefilter, allow_float32))

Call_rotate ==
    /\ pc = "idle"
    /\ \E input \in {inarr}, order \in Orders, mode \in Modes :
         \/ \E prefilter \in BOOLEAN, allow_float32 \in BOOLEAN, output \in Outputs(input),
               q \in 0..1 :
               Do_rotate(input, q, <<1, 0>>, TRUE, output, order, mode, prefilter, allow_float32)
         \/ \E q \in Angles, axes \in AxesPairs, reshape \in BOOLEAN :
               Do_rotate(input, q, axes, reshape, NoneOut, order, mode, TRUE, TRUE)

ShiftVecs == {[nd |-> 0, len |-> 1]}
             \cup {[nd |-> 1, len |-> n] : n \in 0..(MaxRank + 1)}
             \cup {[nd |-> 2, len |-> n] : n \in 1..MaxRank}

Do_shift(input, vec, output, order, mode, prefilter, allow_float32) ==
    Finish([op |-> "shift", input |-> input, output |-> output,
            order |-> order, mode |-> mode, prefilter |-> prefilter,
            allow_float32 |-> allow_float32, vec |-> vec],
           shift(St0, input, vec, output, order, mode, prefilter, allow_float32))

Call_shift ==
    /\ pc = "idle"
    /\ \E input \in {inarr}, order \in Orders, mode \in Modes, prefilter \in BOOLEAN :
         \/ \E allow_float32 \in BOOLEAN, output \in Outputs(input) :
               Do_shift(input, [nd |-> 0, len |-> 1], output, order, mode, prefilter, allow_float32)
         \/ \E vec \in ShiftVecs :
               Do_shift(input, vec, NoneOut, order, mode, prefilter, TRUE)

ZoomNums == {ZoomDen, ZoomDen + 1}

RECURSIVE SeqsOver(_, _)
SeqsOver(S, n) == IF n = 0 THEN {<<>>} ELSE {Append(q, e) : q \in SeqsOver(S, n - 1), e \in S}

ZoomVecs == {[nd |-> 0, vals |-> <<z>>] : z \in ZoomNums}
            \cup {[nd |-> 1, vals |-> v] : v \in UNION {SeqsOver(ZoomNums, n) : n \in 0..(MaxRank + 1)}}
            \cup {[nd |-> 2, vals |-> v] : v \in UNION {SeqsOver({ZoomDen}, n) : n \in 1..MaxRank}}

Do_zoom(input, vec, output, order, mode, prefilter, allow_float32) ==
    Finish([op |-> "zoom", input |-> input, output |-> output,
            order |-> order, mode |-> mode, prefilter |-> prefilter,
            allow_float32 |-> allow_float32, vec |-> vec],
           zoom(St0, input, vec, output, order, mode, prefilter, allow_float32))

Call_zoom ==
    /\ pc = "idle"
    /\ \E input \in {inarr}, order \in Orders, mode \in Modes, prefilter \in BOOLEAN :
         \/ \E allow_float32 \in BOOLEAN, output \in Outputs(input), z \in ZoomNums :
               Do_zoom(input, [nd |-> 0, vals |-> <<z>>], output, order, mode, prefilter, allow_float32)
         \/ \E vec \in ZoomVecs :
               Do_zoom(input, vec, NoneOut, order, mode, prefilter, TRUE)

\* the caller has the result (or the error) and is ready for the next call,
\* with fresh buffers
Return ==
    /\ pc = "returned"
    /\ inarr' = inarr
    /\ pc' = "idle"
    /\ call' = NoCall
    /\ mem' = InitMem
    /\ trace' = <<>>
    /\ err' = "none"
    /\ ret' = NoneOut

Next ==
    \/ Call_spline_filter1d
    \/ Call_spline_filter
    \/ Call_map_coordinates
    \/ Call_affine_transform
    \/ Call_rotate
    \/ Call_shift
    \/ Call_zoom
    \/ Return

Spec == Init /\ [][Next]_vars

\* -------------------------------------------------- spline_filter1d alone
\* spline_filter1d called directly, on inputs of every rank from 0 up
Filter1dInit ==
    /\ inarr \in {Arr("IN", "IN", s, d, TRUE) : s \in Shapes, d \in InDTypes}
    /\ pc = "idle"
    /\ call = NoCall
    /\ mem = InitMem
    /\ trace = <<>>
    /\ err = "none"
    /\ ret = NoneOut

Filter1dSpec == Filter1dInit /\ [][Call_spline_filter1d \/ Return]_vars

\* ------------------------------------------------------ rotate geometry
\* The coordinate map rotate hands to affine_transform, as a function of the
\* input shape, the angle, the axes and reshape.
RotRank == 3
RotExtent == 3
RECURSIVE ShapesOver(_, _)
ShapesOver(n, m) ==
    IF n = 0 THEN {<<>>} ELSE {Append(sh, e) : sh \in ShapesOver(n - 1, m), e \in 1..m}
RotShapes == UNION {ShapesOver(n, RotExtent) : n \in 2..RotRank}
RotAxes == {<<a, b>> : a \in (0 - RotRank)..(RotRank - 1), b \in (0 - RotRank)..(RotRank - 1)}
           \ {<<a, a>> : a \in (0 - RotRank)..(RotRank - 1)}
RotateCalls ==
    {[op |-> "rotate_geometry", shape |-> sh, q |-> q, axes |-> ax, reshape |-> r]
        : sh \in RotShapes, q \in Angles, ax \in RotAxes, r \in BOOLEAN}

RotateInit ==
    /\ inarr = NoneOut
    /\ pc = "idle"
    /\ call \in RotateCalls
    /\ mem = InitMem
    /\ trace = <<>>
    /\ err = "none"
    /\ ret = NoneOut

\* rotate up to its call of affine_transform
NormalizeRotate ==
    /\ pc = "idle"
    /\ pc' = "returned"
    /\ LET ndim == Len(call.shape)
           axes == rotate_axes(call.axes, ndim)
           output_shape == rotate_output_shape(call.shape, call.q, axes, call.reshape)
       IN  IF axes[1] < 0 \/ ndim <= axes[2]
           THEN err' = "InvalidAxes" /\ ret' = NoneOut
           ELSE /\ err' = "none"
                /\ ret' = [axes |-> axes,
                           output_shape |-> output_shape,
                           matrix |-> rotate_matrix(ndim, call.q, axes),
                           offset |-> rotate_offset(call.shape, call.q, axes, output_shape)]
    /\ UNCHANGED <<inarr, call, mem, trace>>

RotateSpec == RotateInit /\ [][NormalizeRotate]_vars

\* ------------------------------------------------------- index arithmetic
\* Element counts beyond the 32-bit range: every extent is a power of two
\* and is held as its exponent, so a product of extents is a sum of
\* exponents and the maximum of two counts the maximum of two exponents.
Log2Limit == 31
LogExtents == {0, 16, 31, 32}
LogShapes == {<<a>> : a \in LogExtents} \cup {<<a, b>> : a \in LogExtents, b \in LogExtents}
\* _misc._prod, on exponents
LogProd(s) == IF Len(s) = 1 THEN s[1] ELSE s[1] + s[2]
LogMax(a, b) == IF a < b THEN b ELSE a
\* x > 1 << 31
Exceeds2p31(e) == e > Log2Limit
\* exponent of input.ndim (1 or 2), the first extent of coordinates
LogRank(s) == Len(s) - 1

\* large_int = max(_misc._prod(input.shape), coordinates.shape[0]) > 1 << 31
large_int_map_coordinates(in_shape, coordinates_shape) ==
    Exceeds2p31(LogMax(LogProd(in_shape), coordinates_shape[1]))
\* large_int = max(_misc._prod(input.shape), _misc._prod(output_shape)) > 1 << 31
large_int_affine_transform(in_shape, output_shape) ==
    Exceeds2p31(LogMax(LogProd(in_shape), LogProd(output_shape)))
\* large_int = _misc._prod(input.shape) > 1 << 31
large_int_shift(in_shape) == Exceeds2p31(LogProd(in_shape))
\* large_int = max(_misc._prod(input.shape), _misc._prod(output_shape)) > 1 << 31
large_int_zoom(in_shape, output_shape) ==
    Exceeds2p31(LogMax(LogProd(in_shape), LogProd(output_shape)))

\* the calls whose index width is chosen: the operation, the input shape and
\* the output shape (for shift the input's; for zoom the input's, each
\* extent scaled by a power of two)
LogZooms == {0, 1, 16}
IndexCalls ==
    {[op |-> "large_int", fn |-> "map_coordinates", in_shape |-> i, out_shape |-> o]
        : i \in LogShapes, o \in LogShapes}
    \cup {[op |-> "large_int", fn |-> "affine_transform", in_shape |-> i, out_shape |-> o]
        : i \in LogShapes, o \in LogShapes}
    \cup {[op |-> "large_int", fn |-> "shift", in_shape |-> i, out_shape |-> i] : i \in LogShapes}
    \cup UNION {{[op |-> "large_int", fn |-> "zoom", in_shape |-> i,
                  out_shape |-> [k \in DOMAIN i |-> i[k] + z]] : z \in LogZooms}
                : i \in LogShapes}

IndexInit ==
    /\ inarr = NoneOut
    /\ pc = "idle"
    /\ call \in IndexCalls
    /\ mem = InitMem
    /\ trace = <<>>
    /\ err = "none"
    /\ ret = NoneOut

ChooseIndexType ==
    /\ pc = "idle"
    /\ pc' = "returned"
    /\ ret' = [large_int |->
                          (CASE call.fn = "map_coordinates" ->
                                  large_int_map_coordinates(
                                      call.in_shape, <<LogRank(call.in_shape)>> \o call.out_shape)
                             [] call.fn = "affine_transform" ->
                                  large_int_affine_transform(call.in_shape, call.out_shape)
                             [] call.fn = "shift" -> large_int_shift(call.in_shape)
                             [] call.fn = "zoom" ->
                                  large_int_zoom(call.in_shape, call.out_shape))]
    /\ UNCHANGED <<inarr, call, mem, trace, err>>

IndexSpec == IndexInit /\ [][ChooseIndexType]_vars

\* ------------------------------------------------- coordinate geometry
\* largest input extent and largest matrix entry of the geometry calls
GeoExtent == 4
MatMax == 2

\* zoom factors reach 2, so an output extent reaches 2 * GeoExtent
GeoMaxOut == 2 * GeoExtent

\* The values the wrappers hand to the sampling kernels, and the input
\* coordinate each kernel derives for an output index.  Numbers are exact
\* rationals [n, d]; d = 0 stands for a non-finite float (inf or nan), which
\* every operation propagates.
Rat(n, d) == [n |-> n, d |-> d]

NonFinite == Rat(0, 0)

IsFinite(a) == a.d # 0

RatNeg(a) == IF IsFinite(a) THEN Rat(0 - a.n, a.d) ELSE NonFinite

RatAdd(a, b) ==
    IF IsFinite(a) /\ IsFinite(b) THEN Rat(a.n * b.d + b.n * a.d, a.d * b.d) ELSE NonFinite

RatSub(a, b) == RatAdd(a, RatNeg(b))

RatMul(a, b) ==
    IF IsFinite(a) /\ IsFinite(b) THEN Rat(a.n * b.n, a.d * b.d) ELSE NonFinite

\* x / 0 is inf or nan
RatDiv(a, b) ==
    IF ~(IsFinite(a) /\ IsFinite(b)) \/ b.n = 0 THEN NonFinite
    ELSE IF b.n > 0 THEN Rat(a.n * b.d, a.d * b.n)
    ELSE Rat(0 - a.n * b.d, 0 - a.d * b.n)

RatEq(a, b) == IsFinite(a) /\ IsFinite(b) /\ a.n * b.d = b.n * a.d

\* the index tuples of an array of the given shape
Indices(shape) ==
    {o \in [1..Len(shape) -> 0..GeoMaxOut] : \A j \in 1..Len(shape) : o[j] < shape[j]}

\* element j of a raw kernel argument; a read past its end yields junk
At(v, j, junk) == IF j \in DOMAIN v THEN v[j] ELSE junk

\* shift kernel: c_j = o_j - shift[j]
shift_kernel_coord(shiftv, ndim, o, junk) ==
    [j \in 1..ndim |-> RatSub(At([k \in DOMAIN o |-> Rat(o[k], 1)], j, junk),
                              At(shiftv, j, junk))]

\* zoom kernel: c_j = zoom[j] * o_j
zoom_kernel_coord(zoomv, ndim, o, junk) ==
    [j \in 1..ndim |-> RatMul(At(zoomv, j, junk),
                              At([k \in DOMAIN o |-> Rat(o[k], 1)], j, junk))]

\* zoom-shift kernel: c_j = zoom[j] * (o_j - shift[j])
zoom_shift_kernel_coord(shiftv, zoomv, ndim, o, junk) ==
    [j \in 1..ndim |->
        RatMul(At(zoomv, j, junk),
               RatSub(At([k \in DOMAIN o |-> Rat(o[k], 1)], j, junk), At(shiftv, j, junk)))]

RECURSIVE RowDot(_, _, _)
RowDot(row, o, k) ==
    IF k = 0 THEN Rat(0, 1)
    ELSE RatAdd(RowDot(row, o, k - 1), RatMul(row[k], Rat(o[k], 1)))

\* affine kernel: c_i = sum_j m[i][j] * o_j + m[i][ndim]
affine_kernel_coord(m, ndim, o) ==
    [i \in 1..ndim |-> RatAdd(RowDot(m[i], o, ndim), m[i][ndim + 1])]

\* numpy broadcasting of two 1-d lengths
Broadcast1(a, b) == IF a = b THEN a ELSE IF a = 1 THEN b ELSE IF b = 1 THEN a ELSE 0 - 1

Pick(v, j) == IF Len(v) = 1 THEN v[1] ELSE v[j]

\* cupy.linalg.inv of the homogeneous matrix [[A, t], [0, 1]] for ndim 1 and
\* 2; a singular matrix raises nothing and yields non-finite entries
inv(m, ndim) ==
    IF ndim = 1
    THEN LET a == m[1][1]
             t == m[1][2]
         IN  <<<<RatDiv(Rat(1, 1), a), RatNeg(RatDiv(t, a))>>, <<Rat(0, 1), Rat(1, 1)>>>>
    ELSE LET det == RatSub(RatMul(m[1][1], m[2][2]), RatMul(m[1][2], m[2][1]))
             i11 == RatDiv(m[2][2], det)
             i12 == RatNeg(RatDiv(m[1][2], det))
             i21 == RatNeg(RatDiv(m[2][1], det))
             i22 == RatDiv(m[1][1], det)
             t1 == RatNeg(RatAdd(RatMul(i11, m[1][3]), RatMul(i12, m[2][3])))
             t2 == RatNeg(RatAdd(RatMul(i21, m[1][3]), RatMul(i22, m[2][3])))
         IN  <<<<i11, i12, t1>>, <<i21, i22, t2>>,
               <<IF IsFinite(det) /\ det.n # 0 THEN Rat(0, 1) ELSE NonFinite,
                 IF IsFinite(det) /\ det.n # 0 THEN Rat(0, 1) ELSE NonFinite,
                 IF IsFinite(det) /\ det.n # 0 THEN Rat(1, 1) ELSE NonFinite>>>>

\* m[:2] = cupy.roll(m[:2], 1, axis=0)
RollRows(m) == [i \in DOMAIN m |-> IF i = 1 THEN m[2] ELSE IF i = 2 THEN m[1] ELSE m[i]]

\* m[:2, :2] = cupy.roll(m[:2, :2], 1, axis=1)
RollCols(m) ==
    [i \in DOMAIN m |->
        IF i > 2 THEN m[i]
        ELSE [j \in DOMAIN m[i] |-> IF j = 1 THEN m[i][2] ELSE IF j = 2 THEN m[i][1] ELSE m[i][j]]]

\* matrix: [nd, v] with v a vector (nd = 1) or a sequence of rows (nd = 2);
\* offset: [scalar, v].  The pair after the augmented / homogeneous split.
normalize_matrix(ndim, matrix, offset) ==
    LET off1 == IF offset.scalar THEN [j \in 1..ndim |-> offset.v] ELSE offset.v
        rows == Len(matrix.v)
        cols == Len(matrix.v[1])
    IN  IF matrix.nd = 2 /\ rows = cols - 1
        THEN [matrix |-> [nd |-> 2, v |-> [i \in 1..rows |-> SubSeq(matrix.v[i], 1, cols - 1)]],
              offset |-> [i \in 1..rows |-> matrix.v[i][cols]]]
        ELSE IF matrix.nd = 2 /\ rows = ndim + 1
        THEN [matrix |-> [nd |-> 2,
                          v |-> [i \in 1..(rows - 1) |-> SubSeq(matrix.v[i], 1, cols - 1)]],
              offset |-> [i \in 1..(rows - 1) |-> matrix.v[i][cols]]]
        ELSE [matrix |-> matrix, offset |-> off1]

Elem(mat, i, j) ==
    IF mat.nd = 1 THEN Pick(mat.v, j)
    ELSE LET row == IF Len(mat.v) = 1 THEN mat.v[1] ELSE mat.v[i]
         IN  Pick(row, j)

FitsSquare(mat, ndim) ==
    IF mat.nd = 1 THEN Len(mat.v) \in {1, ndim}
    ELSE Len(mat.v) \in {1, ndim} /\ Len(mat.v[1]) \in {1, ndim}

\* mode == "opencv": the pair is rebuilt from the inverse of the homogeneous
\* matrix m, with its first two rows and columns rolled
opencv_matrix(ndim, nm) ==
    IF ~(FitsSquare(nm.matrix, ndim) /\ Len(nm.offset) \in {1, ndim})
    THEN [err |-> "BroadcastError", matrix |-> nm.matrix, offset |-> nm.offset]
    ELSE LET m0 == [i \in 1..(ndim + 1) |->
                      [j \in 1..(ndim + 1) |->
                          IF i <= ndim /\ j <= ndim THEN Elem(nm.matrix, i, j)
                          ELSE IF i <= ndim THEN Pick(nm.offset, i)
                          ELSE IF j <= ndim THEN Rat(0, 1)
                          ELSE Rat(1, 1)]]
             m == RollCols(RollRows(inv(m0, ndim)))
         IN  [err |-> "none",
              matrix |-> [nd |-> 2, v |-> [i \in 1..ndim |-> SubSeq(m[i], 1, ndim)]],
              offset |-> [i \in 1..ndim |-> m[i][ndim + 1]]]

\* what affine_transform hands to its kernel: [err, kern, shift, zoom, m]
affine_params(ndim, matrix, offset, mode) ==
    LET nm == normalize_matrix(ndim, matrix, offset)
        om == IF mode = "opencv" THEN opencv_matrix(ndim, nm)
              ELSE [err |-> "none", matrix |-> nm.matrix, offset |-> nm.offset]
        none == <<>>
    IN  IF om.err # "none"
        THEN [err |-> om.err, kern |-> "none", shift |-> none, zoom |-> none, m |-> none]
        \* offset = -offset / matrix
        ELSE IF om.matrix.nd = 1
        THEN LET n == Broadcast1(Len(om.offset), Len(om.matrix.v))
             IN  IF n < 0
                 THEN [err |-> "BroadcastError", kern |-> "none", shift |-> none,
                       zoom |-> none, m |-> none]
                 ELSE [err |-> "none", kern |-> "zoom_shift",
                       shift |-> [j \in 1..n |->
                                     RatDiv(RatNeg(Pick(om.offset, j)), Pick(om.matrix.v, j))],
                       zoom |-> om.matrix.v, m |-> none]
        \* m[:, :-1] = matrix; m[:, -1] = offset
        ELSE IF ~(FitsSquare(om.matrix, ndim) /\ Len(om.offset) \in {1, ndim})
        THEN [err |-> "BroadcastError", kern |-> "none", shift |-> none, zoom |-> none,
              m |-> none]
        ELSE [err |-> "none", kern |-> "affine", shift |-> none, zoom |-> none,
              m |-> [i \in 1..ndim |->
                        [j \in 1..(ndim + 1) |->
                            IF j <= ndim THEN Elem(om.matrix, i, j) ELSE Pick(om.offset, i)]]]

\* the input coordinate of every output index under the chosen kernel
KernelCoords(p, ndim, output_shape, junk) ==
    [o \in Indices(output_shape) |->
        CASE p.kern = "zoom_shift" -> zoom_shift_kernel_coord(p.shift, p.zoom, ndim, o, junk)
          [] p.kern = "affine" -> affine_kernel_coord(p.m, ndim, o)
          [] p.kern = "shift" -> shift_kernel_coord(p.shift, ndim, o, junk)
          [] p.kern = "zoom" -> zoom_kernel_coord(p.zoom, ndim, o, junk)]

\* shift_params with the opencv offset left un-negated
shift_params_unnegated(ndim, vec, mode) ==
    LET shiftv == IF vec.scalar THEN [j \in 1..ndim |-> vec.v] ELSE vec.v
        none == <<>>
    IN  IF mode = "opencv"
        THEN affine_params(ndim, [nd |-> 1, v |-> [j \in 1..ndim |-> Rat(1, 1)]],
                           [scalar |-> FALSE, v |-> shiftv], "_opencv_edge")
        ELSE IF Len(shiftv) # ndim
        THEN [err |-> "InvalidParameterShape", kern |-> "none", shift |-> none,
              zoom |-> none, m |-> none]
        ELSE [err |-> "none", kern |-> "shift", shift |-> shiftv, zoom |-> none, m |-> none]

\* shift: [scalar, v]
shift_params(ndim, vec, mode) ==
    LET shiftv == IF vec.scalar THEN [j \in 1..ndim |-> vec.v] ELSE vec.v
        none == <<>>
    IN  IF mode = "opencv"
        THEN affine_params(ndim, [nd |-> 1, v |-> [j \in 1..ndim |-> Rat(1, 1)]],
                           [scalar |-> FALSE, v |-> [j \in DOMAIN shiftv |-> RatNeg(shiftv[j])]],
                           "_opencv_edge")
        ELSE IF Len(shiftv) # ndim
        THEN [err |-> "InvalidParameterShape", kern |-> "none", shift |-> none,
              zoom |-> none, m |-> none]
        ELSE [err |-> "none", kern |-> "shift", shift |-> shiftv, zoom |-> none, m |-> none]

\* the per-axis factor of the direct path
zoom_factor(in_size, out_size) ==
    IF out_size > 1 THEN Rat(in_size - 1, out_size - 1) ELSE Rat(0, 1)

\* the per-axis factor and offset of the opencv path
zoom_factor_opencv(in_size, out_size) ==
    IF out_size > 1 THEN Rat(in_size, out_size) ELSE Rat(0, 1)

zoom_offset_opencv(in_size, out_size) ==
    IF out_size > 1
    THEN RatDiv(RatSub(zoom_factor_opencv(in_size, out_size), Rat(1, 1)), Rat(2, 1))
    ELSE Rat(0, 1)

\* zoom: [nd, vals] as for zoom_output_shape
zoom_params(shape, vec, mode) ==
    LET ndim == Len(shape)
        output_shape == zoom_output_shape(shape, vec)
        n == Len(output_shape)
        none == <<>>
    IN  IF mode = "opencv"
        THEN affine_params(ndim,
                           [nd |-> 1,
                            v |-> [j \in 1..n |-> zoom_factor_opencv(shape[j], output_shape[j])]],
                           [scalar |-> FALSE,
                            v |-> [j \in 1..n |-> zoom_offset_opencv(shape[j], output_shape[j])]],
                           "nearest")
        ELSE IF n # ndim
        THEN [err |-> "InvalidParameterShape", kern |-> "none", shift |-> none,
              zoom |-> none, m |-> none]
        ELSE [err |-> "none", kern |-> "zoom", shift |-> none,
              zoom |-> [j \in 1..n |-> zoom_factor(shape[j], output_shape[j])], m |-> none]

GeoModes == {"constant", "opencv"}
GeoShapes == ShapesOver(1, GeoExtent) \cup ShapesOver(2, GeoExtent)

ZoomGeoNums == 1..(2 * ZoomDen)
ZoomGeoVecs(ndim) ==
    {[nd |-> 0, vals |-> <<z>>] : z \in ZoomGeoNums}
    \cup {[nd |-> 1, vals |-> v]
            : v \in UNION {SeqsOver(ZoomGeoNums, n) : n \in (ndim - 1)..(ndim + 1)}}
ZoomGeoCalls ==
    UNION {{[op |-> "zoom_geometry", shape |-> sh, vec |-> v, mode |-> md]
              : v \in ZoomGeoVecs(Len(sh)), md \in GeoModes} : sh \in GeoShapes}

ShiftVals == {Rat(0 - 1, 1), Rat(0, 1), Rat(1, 2)}
ShiftGeoVecs(ndim) ==
    {[scalar |-> TRUE, v |-> s] : s \in ShiftVals}
    \cup {[scalar |-> FALSE, v |-> v]
            : v \in UNION {SeqsOver(ShiftVals, n) : n \in (ndim - 1)..(ndim + 1)}}
ShiftGeoCalls ==
    UNION {{[op |-> "shift_geometry", shape |-> sh, vec |-> v, mode |-> md]
              : v \in ShiftGeoVecs(Len(sh)), md \in GeoModes}
           : sh \in ShapesOver(1, 2) \cup ShapesOver(2, 2)}

MatVals == {Rat(k, 1) : k \in {0 - 1, 0, MatMax}}
Matrices(rows, cols) == SeqsOver(SeqsOver(MatVals, cols), rows)
\* a homogeneous matrix: its last row is (0, ..., 0, 1) or anything else
Homogeneous(ndim) ==
    {Append(a, last) : a \in Matrices(ndim, ndim + 1),
                       last \in {[j \in 1..(ndim + 1) |-> IF j <= ndim THEN Rat(0, 1) ELSE Rat(1, 1)],
                                 [j \in 1..(ndim + 1) |-> Rat(1, 1)]}}
AffineMatrices(ndim) ==
    {[nd |-> 1, v |-> v] : v \in SeqsOver(MatVals, ndim)}
    \cup {[nd |-> 2, v |-> v]
            : v \in Matrices(ndim, ndim) \cup Matrices(ndim, ndim + 1) \cup Homogeneous(ndim)}
AffineOffsets(ndim) ==
    {[scalar |-> TRUE, v |-> Rat(k, 1)] : k \in {0, 1}}
    \cup {[scalar |-> FALSE, v |-> v] : v \in SeqsOver({Rat(0, 1), Rat(1, 1)}, ndim)}
AffineGeoCalls ==
    UNION {{[op |-> "affine_geometry", ndim |-> nd, matrix |-> mt, offset |-> off, mode |-> md]
              : mt \in AffineMatrices(nd), off \in AffineOffsets(nd), md \in GeoModes}
           : nd \in 1..2}

\* what a read past the end of a raw kernel argument may yield
Junk == {Rat(0, 1), Rat(3, 1), NonFinite}

GeoInit ==
    /\ inarr = NoneOut
    /\ pc = "idle"
    /\ call \in ZoomGeoCalls \cup ShiftGeoCalls \cup AffineGeoCalls
    /\ mem = InitMem
    /\ trace = <<>>
    /\ err = "none"
    /\ ret = NoneOut

GeoReturn(p, ndim, output_shape, junk) ==
    /\ pc' = "returned"
    /\ err' = p.err
    /\ ret' = IF p.err # "none" THEN NoneOut
              ELSE [params |-> p, output_shape |-> output_shape,
                    coords |-> KernelCoords(p, ndim, output_shape, junk)]
    /\ UNCHANGED <<inarr, call, mem, trace>>

NormalizeZoom ==
    /\ pc = "idle"
    /\ call.op = "zoom_geometry"
    /\ \E junk \in Junk :
          GeoReturn(zoom_params(call.shape, call.vec, call.mode), Len(call.shape),
                    zoom_output_shape(call.shape, call.vec), junk)

NormalizeShift ==
    /\ pc = "idle"
    /\ call.op = "shift_geometry"
    /\ \E junk \in Junk :
          GeoReturn(shift_params(Len(call.shape), call.vec, call.mode), Len(call.shape),
                    call.shape, junk)

\* output_shape = input.shape; the input has extent 2 on every axis
NormalizeAffine ==
    /\ pc = "idle"
    /\ call.op = "affine_geometry"
    /\ \E junk \in Junk :
          GeoReturn(affine_params(call.ndim, call.matrix, call.offset, call.mode), call.ndim,
                    [j \in 1..call.ndim |-> 2], junk)

GeoNext == NormalizeZoom \/ NormalizeShift \/ NormalizeAffine

GeoSpec == GeoInit /\ [][GeoNext]_vars

\* ------------------------------------------------ order-0 sample values
\* map_coordinates at order 0 on a one-dimensional input, with the stored
\* values.  float32 holds 24 significant bits: an integer beyond 2^24 is
\* rounded to the nearest multiple of 2 (of 4 beyond 2^25), a tie to the
\* even significand.
SampleLen == 2

astype_float32(v) ==
    LET a == IF v < 0 THEN 0 - v ELSE v
        step == IF a <= 2^24 THEN 1 ELSE IF a <= 2^25 THEN 2 ELSE 4
        r == PyRound(a, step) * step
    IN  IF v < 0 THEN 0 - r ELSE r

\* order-0 map kernel at an in-range integer coordinate: the stored sample
map_kernel_order0(filtered, c) == filtered[c + 1]

\* the value map_coordinates writes for coordinate c, output omitted
map_coordinates_order0(values, dtype, c, mode, cval) ==
    LET opencv == mode = "opencv" \/ mode = "_opencv_edge"
        \* input = cupy.pad(input, [(1, 1)] * input.ndim, "constant", cval)
        padded == IF opencv THEN <<cval>> \o values \o <<cval>> ELSE values
        \* coordinates = cupy.add(coordinates, 1)
        c1 == IF opencv THEN c + 1 ELSE c
        \* input = input.astype(cupy.float32)
        input == IF Kind(dtype) = "i"
                 THEN [k \in DOMAIN padded |-> astype_float32(padded[k])]
                 ELSE padded
    IN  map_kernel_order0(input, c1)

\* values an element type holds: float32 holds those it can represent
SampleVals(dtype) ==
    IF dtype = "float32" THEN {0, 1, 2^24}
    ELSE {0, 1, 2^24, 2^24 + 1, 2^24 + 3, 0 - (2^24 + 1)}

SampleCalls ==
    UNION {UNION {{[op |-> "map_order0", values |-> v, dtype |-> dt, c |-> c, mode |-> md,
                    cval |-> cv]
                     : c \in 0..(Len(v) - 1), md \in ValidModes, cv \in {0, 1}}
                  : v \in UNION {SeqsOver(SampleVals(dt), n) : n \in 1..SampleLen}}
           : dt \in {"int32", "float32", "float64"}}

SampleInit ==
    /\ inarr = NoneOut
    /\ pc = "idle"
    /\ call \in SampleCalls
    /\ mem = InitMem
    /\ trace = <<>>
    /\ err = "none"
    /\ ret = NoneOut

SampleOrder0 ==
    /\ pc = "idle"
    /\ pc' = "returned"
    /\ ret' = [value |->
                 map_coordinates_order0(call.values, call.dtype, call.c, call.mode, call.cval)]
    /\ UNCHANGED <<inarr, call, mem, trace, err>>

SampleSpec == SampleInit /\ [][SampleOrder0]_vars

\* ---------------------------------------------------------------- entropy
\* scipy.stats entropy.  The caller's pk lives in memory "IN" and the
\* caller's qk, when given, in memory "OUT".

\* a /= cupy.sum(a, axis=axis, keepdims=True): an in-place division
DivideInPlace(st, a) ==
    [st EXCEPT !.mem = [st.mem EXCEPT ![a.mem] = st.mem[a.mem] \o <<"normalized">>],
               !.trace = Append(st.trace, Event("normalize", a.mem, a.mem, "", a.dtype))]

\* Leaves the returned array in val.
entropy(st, pk0, qk0, base, axis) ==
    LET float_type == promote_types(pk0.dtype, "float32")
        \* pk = pk.astype(float_type, copy=False); pk is s.val
        Sum(s) ==
            IF s.err # "none" THEN s
            \* s = cupy.sum(vec, axis=axis); s /= numpy.log(base)
            ELSE LET a == normalize_axis_index(axis, Len(pk0.shape))
                     reduced == [i \in 1..(Len(pk0.shape) - 1) |->
                                    IF i <= a THEN pk0.shape[i] ELSE pk0.shape[i + 1]]
                     \* vec = special.entr(pk) or special.rel_entr(pk, qk)
                     vec == Alloc(s, pk0.shape, float_type, <<"vec">>)
                     r == Alloc(vec, reduced, float_type, <<"s">>)
                 IN  IF base = "none" THEN r ELSE DivideInPlace(r, r.val)
        Relative(s, pk) ==
            \* qk = cupy.asarray(qk, dtype=float_type)
            LET q == AstypeNoCopy(s, qk0, float_type)
            IN  IF q.val.shape # pk.shape THEN Raise(q, "ShapeMismatch")
                ELSE Sum(DivideInPlace(q, q.val))
        Normalized(s) ==
            IF ~AxisInRange(axis, Len(pk0.shape)) THEN Raise(s, "AxisError")
            ELSE LET n == DivideInPlace(s, s.val)
                 IN  IF qk0.kind = "none" THEN Sum(n) ELSE Relative(n, s.val)
    IN  Normalized(AstypeNoCopy(st, pk0, float_type))

EntropyDTypes == {"int32", "float32", "float64"}

EntropyInit ==
    /\ inarr \in {Arr("IN", "IN", s, d, TRUE) : s \in InShapes, d \in EntropyDTypes}
    /\ pc = "idle"
    /\ call = NoCall
    /\ mem = InitMem
    /\ trace = <<>>
    /\ err = "none"
    /\ ret = NoneOut

Call_entropy ==
    /\ pc = "idle"
    /\ \E qk \in {NoneOut} \cup {Arr("OUT", "OUT", s, d, TRUE) : s \in InShapes, d \in EntropyDTypes},
          base \in {"none", "2"}, axis \in (0 - 1)..0 :
         Finish([op |-> "entropy", pk |-> inarr, qk |-> qk, base |-> base, axis |-> axis],
                entropy(St0, inarr, qk, base, axis))

EntropySpec == EntropyInit /\ [][Call_entropy \/ Return]_vars

\* ---------------------------------------------------------------- claims
Returned == pc = "returned"
SamplingOps == {"map_coordinates", "affine_transform", "shift", "zoom", "rotate"}
OutputOps == {"spline_filter1d", "spline_filter", "map_coordinates", "affine_transform",
              "shift", "zoom"}
Events(kinds) == {i \in DOMAIN trace : trace[i].ev \in kinds}
KernelWork == Events({"gain", "prefilter", "sample"})
ValidationErrors == {"InvalidOrder", "InvalidMode", "ShapeMismatch", "DtypeMismatch",
                     "InvalidParameterShape", "InvalidTransformMatrix"}

\* C1: in map_coordinates, affine_transform, shift, zoom and rotate, when the
\* caller's output buffer shares memory with the input, no sampling kernel
\* reads the memory it writes, for every order and prefilter setting.
C1_NoRaceOnAliasedOutput ==
    (Returned /\ call.op \in SamplingOps /\ IsArray(call.output)
              /\ call.output.mem = call.input.mem)
        => \A i \in Events({"sample"}) : trace[i].src # trace[i].dst

\* C2: in every operation, a validation error is raised before any kernel
\* work of the call: a call that ends in a validation error has run no
\* prefilter pass and launched no sampling kernel.
C2_ValidationBeforeKernelWork ==
    (Returned /\ err \in ValidationErrors) => KernelWork = {}

\* C3: each of the seven operations accepts every order in 0..5 without an
\* order error and rejects every order outside 0..5 with an error.
C3_OrderValidExactly0To5 ==
    Returned =>
        /\ (call.order \in 0..MaxOrder => err # "InvalidOrder")
        /\ (call.order \notin 0..MaxOrder => err # "none")

\* C4: every operation called with an unrecognized boundary mode (and an
\* order in 0..5) reports an error and returns no result, whatever the order
\* and the input shape.
C4_InvalidModeRejected ==
    (Returned /\ call.mode \notin ValidModes /\ call.order \in 0..MaxOrder)
        => (err # "none" /\ ret = NoneOut)

\* C5: shift and zoom report an error, and produce no output, whenever the
\* shift/zoom vector is not 1-dimensional or its length differs from
\* input.ndim, under every boundary mode.
VecLen(vec) == IF call.op = "shift" THEN vec.len ELSE Len(vec.vals)
C5_VectorShapeRejected ==
    (Returned /\ call.op \in {"shift", "zoom"}
              /\ (call.vec.nd = 2
                   \/ (call.vec.nd = 1 /\ VecLen(call.vec) # Len(call.input.shape))))
        => (err # "none" /\ ret = NoneOut)

\* C6: an operation given a complex input together with a requested output
\* that is not complex, whether an output buffer or an output dtype, rejects
\* the call with an error and returns no result.
RequestedDtype(o) == IF o.kind = "none" THEN "" ELSE o.dtype
C6_ComplexToRealRejected ==
    (Returned /\ call.op \in OutputOps \cup {"rotate"}
              /\ Kind(call.input.dtype) = "c"
              /\ call.output.kind # "none"
              /\ Kind(RequestedDtype(call.output)) # "c")
        => (err # "none" /\ ret = NoneOut)

\* C7: affine_transform given a matrix whose shape is none of (ndim,),
\* (ndim, ndim), (ndim, ndim + 1), (ndim + 1, ndim + 1) reports an error and
\* launches no sampling kernel: no such matrix is interpreted as a transform.
AcceptedMatrixShapes(ndim) ==
    {<<ndim>>, <<ndim, ndim>>, <<ndim, ndim + 1>>, <<ndim + 1, ndim + 1>>}
C7_MatrixShapeRejected ==
    (Returned /\ call.op = "affine_transform"
              /\ call.matrix.shape \notin AcceptedMatrixShapes(Len(call.input.shape)))
        => (err # "none" /\ Events({"sample"}) = {})

\* C8: an operation given an output buffer whose shape differs from the
\* shape the operation computes for its output reports an error and does
\* not write the buffer.
ExpectedShape ==
    CASE call.op \in {"spline_filter1d", "spline_filter", "shift"} -> call.input.shape
      [] call.op = "map_coordinates" -> call.coordinates.shape
      [] call.op = "affine_transform" ->
            IF call.output_shape = NoShape THEN call.input.shape ELSE call.output_shape
      [] call.op = "zoom" -> zoom_output_shape(call.input.shape, call.vec)
      [] OTHER -> <<>>
C8_WrongShapeBufferRejected ==
    (Returned /\ call.op \in OutputOps /\ IsArray(call.output)
              /\ call.output.shape # ExpectedShape)
        => (err # "none" /\ mem[call.output.mem] = InitMem[call.output.mem])

\* C9: in a call with allow_float32 = FALSE every prefilter pass works on a
\* double-precision buffer, and the prefiltered array handed to the sampling
\* kernel has double precision, in every sampling operation including the
\* opencv-mode paths of shift and zoom.
C9_DoublePrecisionIntermediates ==
    (Returned /\ call.op # "none" /\ call.allow_float32 = FALSE) =>
        /\ \A i \in Events({"gain", "prefilter"}) : FloatBits(trace[i].dt) = 64
        /\ (Events({"prefilter"}) # {}
              => \A i \in Events({"sample"}) : FloatBits(trace[i].dt) = 64)

\* C10: whenever an operation reports an error, the caller's input array and
\* the caller's output buffer hold exactly their contents from before the call.
C10_NoPartialWriteOnError ==
    (Returned /\ err # "none") => \A m \in CallerMem : mem[m] = InitMem[m]

\* the gain and pass marks left on a buffer of the given shape by the passes
\* for axes k-1, k, ..., an axis of extent 1 being passed through unfiltered
RECURSIVE PassesFrom(_, _)
PassesFrom(shape, k) ==
    IF k > Len(shape) THEN <<>>
    ELSE (IF shape[k] = 1 THEN <<>> ELSE <<"gain", PassTags[k]>>) \o PassesFrom(shape, k + 1)
AxisOfTag(t) == CHOOSE k \in DOMAIN PassTags : PassTags[k] = t

\* C17: affine_transform returns None when output is given as an array, and
\* returns the transformed array only when output is a dtype or omitted.
C17_ReturnsNoneForOutputArray ==
    (Returned /\ call.op = "affine_transform" /\ err = "none") =>
        IF IsArray(call.output) THEN ret = NoneOut ELSE IsArray(ret)

\* C18: a spline_filter call that succeeds runs the passes for axes
\* 0, 1, ..., ndim-1 in that order, each axis once (an axis of extent 1 is
\* passed through without a kernel launch), all on one working buffer that
\* is never reloaded from the input after a pass, and returns the contents
\* of that buffer after the last pass.
FilterCall ==
    /\ Returned /\ call.op = "spline_filter" /\ err = "none"
    /\ (IsArray(call.output) => call.output.shape = call.input.shape)
C18_AxesInOrderOnOneBuffer ==
    FilterCall =>
        LET P == Events({"prefilter"})
        IN  /\ \A i \in P, j \in P : i < j => AxisOfTag(trace[i].tag) < AxisOfTag(trace[j].tag)
            /\ \A k \in DOMAIN call.input.shape :
                  call.input.shape[k] > 1 => \E i \in P : trace[i].tag = PassTags[k]
            /\ \A i \in P, j \in P : trace[i].dst = trace[j].dst /\ trace[i].src = trace[i].dst
            /\ \A i \in P, j \in Events({"copy"}) :
                  (i < j /\ trace[j].dst = trace[i].dst) => trace[j].src = trace[i].dst
            /\ mem[ret.mem] = InitMem["IN"] \o PassesFrom(call.input.shape, 1)
C18_Witness ==
    /\ FilterCall /\ call.input.shape = <<2, 2>>
    /\ Cardinality(Events({"prefilter"})) = 2

\* C19: in the five sampling operations a prefilter pass occurs only if
\* order > 1 and prefilter is true; when the sampling kernel is launched,
\* every prefilter pass has completed before it, and the kernel reads the
\* input prefiltered over all axes if order > 1 and prefilter is true and
\* the raw input otherwise.
SampledShape ==
    IF call.op = "map_coordinates" /\ call.mode \in {"opencv", "_opencv_edge"}
    THEN [i \in DOMAIN call.input.shape |-> call.input.shape[i] + 2]
    ELSE call.input.shape
RawContent ==
    IF call.op = "map_coordinates" /\ call.mode \in {"opencv", "_opencv_edge"}
    THEN InitMem["IN"] \o <<"pad">> ELSE InitMem["IN"]
C20_WideIndexBeyond2p31 ==
    (Returned /\ call.op = "large_int") =>
        ((Exceeds2p31(LogProd(call.in_shape)) \/ Exceeds2p31(LogProd(call.out_shape)))
            => ret.large_int)

\* the extent of the rotated bounding box of an iy x ix plane along the two
\* in-plane axes, in units of 1/TrigDen
Abs(x) == IF x < 0 THEN 0 - x ELSE x
BoxExtent(q, iy, ix) ==
    <<Abs(cos(q).n) * iy + Abs(sin(q).n) * ix, Abs(sin(q).n) * iy + Abs(cos(q).n) * ix>>
RotateDone == Returned /\ call.op = "rotate_geometry" /\ err = "none"
InPlane(k) == IF k = ret.axes[1] + 1 THEN 1 ELSE IF k = ret.axes[2] + 1 THEN 2 ELSE 0
RotBox == BoxExtent(call.q, call.shape[ret.axes[1] + 1], call.shape[ret.axes[2] + 1])

Identity(i, j) == IF i = j THEN TrigDen ELSE 0
C14_IdentityAt0And360 ==
    (RotateDone /\ ~call.reshape /\ call.q \in {0, 4}) =>
        /\ ret.output_shape = call.shape
        /\ \A i \in DOMAIN call.shape, j \in DOMAIN call.shape :
              ret.matrix[i][j] = Exact(Identity(i, j))
        /\ \A i \in DOMAIN call.shape : ret.offset[i] = Exact(0)

\* C14 (amended): rotate by 0 and by 360 degrees without reshape keeps the
\* shape, for every valid pair of axes. At 0 degrees the matrix is exactly
\* the identity and the offset exactly zero. At 360 degrees they are so up
\* to the rounding residue of sin(2 pi): the diagonal and every entry
\* outside the rotation plane are exact, the two in-plane off-diagonal
\* entries are that residue and not zero.
C14_IdentityUpToResidue ==
    (RotateDone /\ ~call.reshape /\ call.q \in {0, 4}) =>
        /\ ret.output_shape = call.shape
        /\ \A i \in DOMAIN call.shape, j \in DOMAIN call.shape :
              /\ ret.matrix[i][j].n = Identity(i, j)
              /\ ret.matrix[i][j].t =
                    IF call.q = 4 /\ i # j /\ InPlane(i) # 0 /\ InPlane(j) # 0
                    THEN "off" ELSE "exact"
        /\ \A i \in DOMAIN call.shape :
              /\ ret.offset[i].n = 0
              /\ (call.q = 0 \/ InPlane(i) = 0) => ret.offset[i].t = "exact"
C14_Witness ==
    /\ RotateDone /\ ~call.reshape /\ call.q = 4 /\ call.shape = <<2, 3, 2>>
    /\ ret.axes = <<0, 2>> /\ ret.matrix[1][3].t = "off"

\* ---- C12
ZoomDone == pc = "returned" /\ call.op = "zoom_geometry" /\ err = "none"

\* the caller's zoom supplies a factor for every axis of the input
ZoomCovers == call.vec.nd = 0 \/ Len(call.vec.vals) >= Len(call.shape)

ZoomNum(j) == IF call.vec.nd = 0 THEN call.vec.vals[1] ELSE call.vec.vals[j]

\* out is the integer nearest to num / den, the even one of two on a tie
IsRound(out, num, den) ==
    \/ 2 * Abs(out * den - num) < den
    \/ 2 * Abs(out * den - num) = den /\ out % 2 = 0

ZoomExtents ==
    /\ Len(ret.output_shape) = Len(call.shape)
    /\ \A j \in 1..Len(call.shape) :
          IsRound(ret.output_shape[j], call.shape[j] * ZoomNum(j), ZoomDen)

\* axis j is sampled at o * (in - 1) / (out - 1), at 0 when out <= 1
EndpointSampling(j) ==
    LET in == call.shape[j]
        out == ret.output_shape[j]
    IN  \A o \in DOMAIN ret.coords :
           /\ out > 1 => RatEq(ret.coords[o][j], Rat(o[j] * (in - 1), out - 1))
           /\ out <= 1 => RatEq(ret.coords[o][j], Rat(0, 1))
           /\ out > 1 /\ o[j] = 0 => RatEq(ret.coords[o][j], Rat(0, 1))
           /\ out > 1 /\ o[j] = out - 1 => RatEq(ret.coords[o][j], Rat(in - 1, 1))

\* C12: zoom gives every axis the output extent
\* round(input_extent * zoom_factor) and samples output index o of the axis
\* at o * (in - 1) / (out - 1) when out > 1 and at 0 when out <= 1, so that
\* output index 0 lands on input index 0 and out - 1 on in - 1.
C12_EndpointsPreserved ==
    ZoomDone /\ ZoomCovers =>
        /\ ZoomExtents
        /\ \A j \in 1..Len(call.shape) : EndpointSampling(j)

\* ---- C15
ShiftDone == pc = "returned" /\ call.op = "shift_geometry" /\ err = "none"

\* the caller's shift is a number or one value per axis
ShiftCovers == call.vec.scalar \/ Len(call.vec.v) = Len(call.shape)

ShiftOf(j) == IF call.vec.scalar THEN call.vec.v ELSE call.vec.v[j]

AffineDone == pc = "returned" /\ call.op = "affine_geometry" /\ err = "none"

MatrixRows == Len(call.matrix.v)
MatrixCols == Len(call.matrix.v[1])
IsAugmented == call.matrix.nd = 2 /\ MatrixRows = call.ndim /\ MatrixCols = call.ndim + 1
IsHomogeneous == call.matrix.nd = 2 /\ MatrixRows = call.ndim + 1
IsSquare == call.matrix.nd = 2 /\ MatrixRows = call.ndim /\ MatrixCols = call.ndim

OffsetOf(i) == IF call.offset.scalar THEN call.offset.v ELSE call.offset.v[i]

\* the kernel gets the leading block and the last column of the caller's
\* matrix
UsesBlockAndLastColumn ==
    /\ ret.params.kern = "affine"
    /\ \A i \in 1..call.ndim : \A j \in 1..(call.ndim + 1) :
          ret.params.m[i][j] = call.matrix.v[i][j]

\* the kernel gets the caller's matrix and the caller's offset
UsesMatrixAndOffset ==
    /\ ret.params.kern = "affine"
    /\ \A i \in 1..call.ndim :
          /\ \A j \in 1..call.ndim : ret.params.m[i][j] = call.matrix.v[i][j]
          /\ ret.params.m[i][call.ndim + 1] = OffsetOf(i)

\* a homogeneous matrix and the augmented matrix of its first ndim rows give
\* the kernel the same arguments
SameAsAugmented ==
    ret.params = affine_params(call.ndim,
                               [nd |-> 2, v |-> SubSeq(call.matrix.v, 1, call.ndim)],
                               call.offset, call.mode)

OffsetIgnored ==
    \A off \in AffineOffsets(call.ndim) :
        ret.params = affine_params(call.ndim, call.matrix, off, call.mode)

\* C16: a homogeneous and an augmented matrix are normalized to
\* the same pair, the leading block and the last column, whatever the
\* caller's offset; for the (ndim, ndim) form the caller's matrix and offset
\* are used unchanged.
C16_NormalizedPairUsed ==
    AffineDone =>
        /\ IsHomogeneous => SameAsAugmented
        /\ IsAugmented \/ IsHomogeneous => OffsetIgnored /\ UsesBlockAndLastColumn
        /\ IsSquare => UsesMatrixAndOffset

\* ---- C11
\* C11: map_coordinates at order 0 with an integer-valued in-range
\* coordinate returns exactly input[coordinate], for every element type and
\* every boundary mode, opencv and _opencv_edge included.
C11_Order0ReturnsStoredSample ==
    pc = "returned" /\ call.op = "map_order0" =>
        ret.value = call.values[call.c + 1]

\* ---- C21
Filter1dDone == Returned /\ call.op = "spline_filter1d"

Rank0 == Len(call.input.shape) = 0

\* a valid call: order 0..5, a known mode, an axis of the input (any axis
\* argument for an input of rank 0), an output the input fits
Filter1dValid ==
    /\ call.order \in 0..MaxOrder
    /\ call.mode \in ValidModes
    /\ Rank0 \/ AxisInRange(call.axis, Len(call.input.shape))
    /\ IsArray(call.output) => call.output.shape = call.input.shape
    /\ ~(Kind(call.input.dtype) = "c" /\ call.output.kind # "none"
                                      /\ Kind(RequestedDtype(call.output)) # "c")

PassThroughCase ==
    \/ call.order < 2
    \/ Rank0
    \/ call.input.shape[normalize_axis_index(call.axis, Len(call.input.shape)) + 1] = 1

\* C21: spline_filter1d returns the input values unchanged, with no gain
\* applied and no kernel launched, whenever order < 2, the input has rank 0
\* or the extent along the axis is 1; every other valid call applies the
\* gain and launches the filter kernel exactly once.
C21_PassThroughOrOneKernel ==
    Filter1dDone /\ Filter1dValid =>
        /\ err = "none"
        /\ IF PassThroughCase
           THEN /\ Events({"gain", "prefilter"}) = {}
                /\ mem[ret.mem] = InitMem["IN"]
           ELSE /\ Cardinality(Events({"gain"})) = 1
                /\ Cardinality(Events({"prefilter"})) = 1
                /\ mem[ret.mem] = InitMem["IN"] \o
                      <<"gain", PassTags[normalize_axis_index(call.axis,
                                                              Len(call.input.shape)) + 1]>>

\* ---- C22
\* the coordinates affine_transform samples when given diag(v) in place of
\* the vector v
DiagonalCoords ==
    LET diag == [i \in 1..call.ndim |->
                    [j \in 1..call.ndim |-> IF i = j THEN call.matrix.v[i] ELSE Rat(0, 1)]]
    IN  KernelCoords(affine_params(call.ndim, [nd |-> 2, v |-> diag], call.offset, call.mode),
                     call.ndim, ret.output_shape, NonFinite)

\* C22: affine_transform given a length-ndim vector v samples, for every
\* output index o and axis j, the coordinate v[j] * o[j] + offset[j], the
\* same as affine_transform given diag(v), in every mode and for every v,
\* one with a zero entry included.
C22_VectorIsDiagonal ==
    AffineDone /\ call.matrix.nd = 1 =>
        \A o \in DOMAIN ret.coords : \A j \in 1..call.ndim :
            /\ RatEq(ret.coords[o][j],
                     RatAdd(RatMul(call.matrix.v[j], Rat(o[j], 1)), OffsetOf(j)))
            /\ RatEq(ret.coords[o][j], DiagonalCoords[o][j])

\* ---- C23
\* C23: entropy leaves the caller's pk and qk arrays as they were, for
\* every dtype of pk and qk, and also when the call fails because qk and pk
\* have different shapes.
C23_EntropyLeavesArgumentsUnchanged ==
    Returned /\ call.op = "entropy" =>
        /\ mem["IN"] = InitMem["IN"]
        /\ mem["OUT"] = InitMem["OUT"]

====
